---- MODULE Spec2Model ----
(***************************************************************************)
(* Kalah search strategies: the game (KalahGame.py), the static evaluator  *)
(* (Kalahevaluate.py), alpha-beta minimax (KalahMinimax.py), MCTS and its  *)
(* halving drivers (KalahMCTS.py), NMCS (NMCS.py), NRPA (NRPA.py) and      *)
(* unbounded best-first minimax (UNMINIMAX.py), driven move by move as in  *)
(* play_match (comparison_metrics.py).                                     *)
(*                                                                         *)
(* Numbers.  evaluate() returns 1.0*a + 0.7*b + 0.2*c; the model keeps the *)
(* value times ten (10a + 7b + 2c), an integer with the same order.        *)
(* float('inf') is the integer Inf, larger than every score.               *)
(***************************************************************************)
EXTENDS Integers, Sequences, FiniteSets, TLC

\* ------------------------------------------------------------------ bounds
MaxSeeds == 4
MaxCalls == 2
MaxDepth == 3
MaxIter == 2
MaxRunIterations == 3
MaxLevel == 1
MinExponent == 10
MaxBudget == 8

\* --------------------------------------------------------- program constants
None == -1
Inf == 1000000
InitialSeeds == 4
SidePits == 6
Weight1 == 10
Weight2 == 7
Weight3 == 2

Pits == 0..13
Players == {0, 1}

Max(a, b) == IF a >= b THEN a ELSE b
Min(a, b) == IF a <= b THEN a ELSE b

RECURSIVE SumRange(_, _, _)
\* sum(board[lo:hi]) of Python: the pits lo .. hi-1
SumRange(board, lo, hi) ==
    IF lo >= hi THEN 0 ELSE board[lo] + SumRange(board, lo + 1, hi)

\* the orders a list can be put in (random.shuffle; a sort by a key that is beyond
\* the integers of the model)
Orders(move_nodes) ==
    {[i \in 1..Len(move_nodes) |-> move_nodes[f[i]]] :
        f \in {f \in [1..Len(move_nodes) -> 1..Len(move_nodes)] :
                  \A i, j \in 1..Len(move_nodes) : i # j => f[i] # f[j]}}

\* ------------------------------------------------------------------ KalahGame
\* KalahGame.__init__: four stones in every pit, empty stores, player 0 to move
NewGame ==
    [board |-> [i \in Pits |-> IF i \in {6, 13} THEN 0 ELSE InitialSeeds],
     current_player |-> 0,
     last_pit |-> None]

from_board_to_state(g) == [board |-> g.board, current_player |-> g.current_player]

valid_moves(g, player) ==
    LET start == player * 7
        pits == [i \in 1..6 |-> start + i - 1]
        moves == SelectSeq(pits, LAMBDA i : g.board[i] > 0)
    IN IF moves = <<>> THEN <<None>> ELSE moves

RECURSIVE SowSkipsBothStores(_, _, _, _)
\* sowing that passes over the player's own store as well
SowSkipsBothStores(board, index, stones, player) ==
    IF stones = 0 THEN [board |-> board, index |-> index]
    ELSE LET i == (index + 1) % 14
         IN IF i \in {6, 13}
            THEN SowSkipsBothStores(board, i, stones, player)
            ELSE SowSkipsBothStores([board EXCEPT ![i] = @ + 1], i, stones - 1, player)

RECURSIVE Sow(_, _, _, _)
\* the while loop of perform_move: one stone per pit, the opponent's store skipped
Sow(board, index, stones, player) ==
    IF stones = 0 THEN [board |-> board, index |-> index]
    ELSE LET i == (index + 1) % 14
         IN IF i = (IF player = 1 THEN 6 ELSE 13)
            THEN Sow(board, i, stones, player)
            ELSE Sow([board EXCEPT ![i] = @ + 1], i, stones - 1, player)

Capture(board, index, player) ==
    IF /\ 0 <= index /\ index < 6 /\ player = 0
       /\ board[index] = 1 /\ board[12 - index] > 0
    THEN [board EXCEPT ![6] = @ + board[index] + board[12 - index],
                       ![index] = 0, ![12 - index] = 0]
    ELSE IF /\ 7 <= index /\ index < 13 /\ player = 1
            /\ board[index] = 1 /\ board[12 - index] > 0
    THEN [board EXCEPT ![13] = @ + board[index] + board[12 - index],
                       ![index] = 0, ![12 - index] = 0]
    ELSE board

perform_move(g, move, player) ==
    IF move = None THEN g
    ELSE LET sown == Sow([g.board EXCEPT ![move] = 0], move, g.board[move], player)
             index == sown.index
         IN [board |-> Capture(sown.board, index, player),
             current_player |-> IF index # (IF player = 0 THEN 6 ELSE 13)
                                THEN 1 - player ELSE g.current_player,
             last_pit |-> index]

is_on_player_side(ending_pit, player) ==
    IF player = 0 THEN 0 <= ending_pit /\ ending_pit <= 6
    ELSE 7 <= ending_pit /\ ending_pit <= 13

\* a Python list index: board[-1] is board[13]
get_seeds(g, ending_pit) ==
    g.board[IF ending_pit < 0 THEN ending_pit + 14 ELSE ending_pit]

\* "ending_pit == 6 and ending_pit == 13" is never true: always 12 - ending_pit
get_opposite_pit(ending_pit) == 12 - ending_pit

get_store(g, player) == IF player = 0 THEN g.board[6] ELSE g.board[13]

is_terminal(g) == SumRange(g.board, 0, 6) = 0 \/ SumRange(g.board, 7, 13) = 0

result(g) == SumRange(g.board, 0, 7) - SumRange(g.board, 7, 14)

\* ----------------------------------------------------------------------- copies
\* An object that a call receives and the objects the call makes from it: a copy
\* is the state it was made from and whether it is the same object, so that a write
\* to it is also a write to the original.

\* new_game = game: no copy, the same object under a second name
same_object(g) == [game |-> g, shared |-> TRUE]

\* copy.deepcopy(game): a new object, equal to game field by field
deepcopy(g) == [game |-> g, shared |-> FALSE]

\* KalahGame.get_game_copy: a new KalahGame with board[:], current_player, last_pit
game_copy(g) == [game |-> g, shared |-> FALSE]

\* --------------------------------------------------------------- Kalahevaluate
\* both counters loop over valid_moves(player), play each move on a copy and count
\* the copies that pass the test
count_extra_moves(g, player) ==
    LET moves == valid_moves(g, player)
    IN Cardinality({i \in 1..Len(moves) :
           perform_move(g, moves[i], player).current_player = player})

\* is_on_player_side(None, player) raises TypeError: it can only be reached with the
\* None move on a game that has made no move yet, which the model counts as no capture
count_potential_captures(g, player) ==
    LET moves == valid_moves(g, player)
    IN Cardinality({i \in 1..Len(moves) :
           LET new_game == perform_move(g, moves[i], player)
               ending_pit == new_game.last_pit
           IN /\ ending_pit # None
              /\ is_on_player_side(ending_pit, player)
              /\ get_seeds(new_game, ending_pit) = 1
              /\ get_seeds(new_game, get_opposite_pit(ending_pit)) > 0})

evaluate(g, player) ==
    LET opponent == 1 - player
        store_diff == get_store(g, player) - get_store(g, opponent)
        extra_moves_diff == count_extra_moves(g, player) - count_extra_moves(g, opponent)
        capture_diff == count_potential_captures(g, player)
                        - count_potential_captures(g, opponent)
    IN Weight1 * store_diff + Weight2 * extra_moves_diff + Weight3 * capture_diff

RECURSIVE simulate_moves(_, _, _, _)
\* the loop of count_extra_moves and of count_potential_captures, seen from the
\* object `game`: every move of the list is played on a deepcopy of it
simulate_moves(g, moves, i, player) ==
    IF i > Len(moves) THEN g
    ELSE LET new_game == deepcopy(g)
         IN simulate_moves(IF new_game.shared
                           THEN perform_move(new_game.game, moves[i], player)
                           ELSE g,
                           moves, i + 1, player)

\* the object `game` as evaluate(game, player) leaves it: the four counting loops
evaluate_leaves(g, player) ==
    LET opponent == 1 - player
        g1 == simulate_moves(g, valid_moves(g, player), 1, player)
        g2 == simulate_moves(g1, valid_moves(g1, opponent), 1, opponent)
        g3 == simulate_moves(g2, valid_moves(g2, player), 1, player)
    IN simulate_moves(g3, valid_moves(g3, opponent), 1, opponent)

\* ---------------------------------------------------------------- KalahMinimax
RECURSIVE minimax(_, _, _, _, _), MaxLoop(_, _, _, _, _, _, _, _, _),
          MinLoop(_, _, _, _, _, _, _, _, _)

\* Every result carries evals, the number of evaluate() calls made to get it, and
\* game, the object the call was given as the call leaves it.

\* MaxLoop with >= in the comparison: a later move of equal score replaces the best
MaxLoopKeepsLast(g, depth, alpha, beta, p, moves, i, max_eval, best_move) ==
    IF i > Len(moves)
    THEN [score |-> max_eval, move |-> best_move, evals |-> 0, game |-> g]
    ELSE LET new_game == deepcopy(g)
             sub == minimax(perform_move(new_game.game, moves[i], p),
                            depth - 1, alpha, beta, p)
             g2 == IF new_game.shared THEN sub.game ELSE g
             eval_score == sub.score
             better == eval_score >= max_eval
             max2 == IF better THEN eval_score ELSE max_eval
             best2 == IF better THEN moves[i] ELSE best_move
             alpha2 == Max(alpha, eval_score)
         IN IF beta <= alpha2
            THEN [score |-> max2, move |-> best2, evals |-> sub.evals, game |-> g2]
            ELSE LET rest == MaxLoop(g2, depth, alpha2, beta, p, moves, i + 1, max2, best2)
                 IN [rest EXCEPT !.evals = @ + sub.evals]

\* the maximizing for loop, at move i with the running max_eval / best_move / alpha;
\* current_player is minimax_player here
MaxLoop(g, depth, alpha, beta, p, moves, i, max_eval, best_move) ==
    IF i > Len(moves)
    THEN [score |-> max_eval, move |-> best_move, evals |-> 0, game |-> g]
    ELSE LET new_game == deepcopy(g)
             sub == minimax(perform_move(new_game.game, moves[i], p),
                            depth - 1, alpha, beta, p)
             g2 == IF new_game.shared THEN sub.game ELSE g
             eval_score == sub.score
             better == eval_score > max_eval
             max2 == IF better THEN eval_score ELSE max_eval
             best2 == IF better THEN moves[i] ELSE best_move
             alpha2 == Max(alpha, eval_score)
         IN IF beta <= alpha2
            THEN [score |-> max2, move |-> best2, evals |-> sub.evals, game |-> g2]
            ELSE LET rest == MaxLoop(g2, depth, alpha2, beta, p, moves, i + 1, max2, best2)
                 IN [rest EXCEPT !.evals = @ + sub.evals]

\* MinLoop with the cut-off test turned round: it breaks while the window is open
MinLoopCutsOpenWindow(g, depth, alpha, beta, p, moves, i, min_eval, best_move) ==
    IF i > Len(moves)
    THEN [score |-> min_eval, move |-> best_move, evals |-> 0, game |-> g]
    ELSE LET new_game == deepcopy(g)
             sub == minimax(perform_move(new_game.game, moves[i], 1 - p),
                            depth - 1, alpha, beta, p)
             g2 == IF new_game.shared THEN sub.game ELSE g
             eval_score == sub.score
             better == eval_score < min_eval
             min2 == IF better THEN eval_score ELSE min_eval
             best2 == IF better THEN moves[i] ELSE best_move
             beta2 == Min(beta, eval_score)
         IN IF alpha <= beta2
            THEN [score |-> min2, move |-> best2, evals |-> sub.evals, game |-> g2]
            ELSE LET rest == MinLoop(g2, depth, alpha, beta2, p, moves, i + 1, min2, best2)
                 IN [rest EXCEPT !.evals = @ + sub.evals]

\* the minimizing for loop; current_player is the other player here
MinLoop(g, depth, alpha, beta, p, moves, i, min_eval, best_move) ==
    IF i > Len(moves)
    THEN [score |-> min_eval, move |-> best_move, evals |-> 0, game |-> g]
    ELSE LET new_game == deepcopy(g)
             sub == minimax(perform_move(new_game.game, moves[i], 1 - p),
                            depth - 1, alpha, beta, p)
             g2 == IF new_game.shared THEN sub.game ELSE g
             eval_score == sub.score
             better == eval_score < min_eval
             min2 == IF better THEN eval_score ELSE min_eval
             best2 == IF better THEN moves[i] ELSE best_move
             beta2 == Min(beta, eval_score)
         IN IF beta2 <= alpha
            THEN [score |-> min2, move |-> best2, evals |-> sub.evals, game |-> g2]
            ELSE LET rest == MinLoop(g2, depth, alpha, beta2, p, moves, i + 1, min2, best2)
                 IN [rest EXCEPT !.evals = @ + sub.evals]

minimax(g, depth, alpha, beta, minimax_player) ==
    IF depth = 0 \/ is_terminal(g)
    THEN [score |-> evaluate(g, minimax_player), move |-> None, evals |-> 1,
          game |-> evaluate_leaves(g, minimax_player)]
    ELSE IF g.current_player = minimax_player
    THEN MaxLoop(g, depth, alpha, beta, minimax_player,
                 valid_moves(g, g.current_player), 1, -Inf, None)
    ELSE MinLoop(g, depth, alpha, beta, minimax_player,
                 valid_moves(g, g.current_player), 1, Inf, None)

minimax_move(g, depth) == minimax(g, depth, -Inf, Inf, g.current_player).move

\* ------------------------------------------------------------------ KalahMCTS
\* A tree is a sequence of nodes; a node names its parent and its children by their
\* positions in it (parent 0 is Python's None).

\* MCTSNode.get_game_copy: a fresh KalahGame with the node's board and player
get_game_copy(game_state) ==
    [board |-> game_state.board, current_player |-> game_state.current_player,
     last_pit |-> None]

\* MCTSNode.get_valid_moves
get_valid_moves(game_state) ==
    valid_moves(get_game_copy(game_state), game_state.current_player)

\* MCTSNode.__init__
MCTSNode(game_state, parent, m, player) ==
    [game_state |-> game_state, parent |-> parent, move |-> m, children |-> <<>>,
     visits |-> 0, value |-> 0, untried_moves |-> get_valid_moves(game_state),
     player |-> player,
     rave_visits |-> [x \in Pits |-> 0], rave_value |-> [x \in Pits |-> 0],
     prior |-> [num |-> 1, den |-> 1]]

is_fully_expanded(n) == Len(n.untried_moves) = 0

\* KalahMCTS.terminal_state
terminal_state(n) == is_terminal(get_game_copy(n.game_state))

\* the prior expand() gives the new child under PUCT, as the fraction num/den:
\* g is the game after the move m was played on it
puct_prior(g, m) ==
    LET moves == valid_moves(g, g.current_player)
        score(i) == evaluate(perform_move(g, moves[i], g.current_player), g.current_player)
        Total[i \in 0..Len(moves)] == IF i = 0 THEN 0 ELSE Total[i - 1] + score(i)
        total_score == Total[Len(moves)]
        mine == {i \in 1..Len(moves) : moves[i] = m}
    IN IF total_score > 0
       THEN [num |-> IF mine = {} THEN 0 ELSE score(CHOOSE i \in mine : TRUE),
             den |-> total_score]
       ELSE [num |-> 1, den |-> Len(moves)]

\* expand that reads the last untried move and leaves it in the list
expand_without_pop(ns, n, use_puct) ==
    LET game0 == get_game_copy(ns[n].game_state)
        untried == IF ns[n].untried_moves = <<>>
                   THEN valid_moves(game0, game0.current_player)
                   ELSE ns[n].untried_moves
        m == untried[Len(untried)]
        g == perform_move(game0, m, game0.current_player)
        child0 == MCTSNode(from_board_to_state(g), n, m, g.current_player)
        child == IF use_puct THEN [child0 EXCEPT !.prior = puct_prior(g, m)] ELSE child0
        id == Len(ns) + 1
    IN Append([ns EXCEPT ![n].untried_moves = untried, ![n].children = Append(@, id)],
              child)

\* MCTSNode.expand on node n of the tree ns: the last untried move is popped and
\* played, and the child is appended to the tree and to n.children
expand(ns, n, use_puct) ==
    LET game0 == get_game_copy(ns[n].game_state)
        untried == IF ns[n].untried_moves = <<>>
                   THEN valid_moves(game0, game0.current_player)
                   ELSE ns[n].untried_moves
        m == untried[Len(untried)]
        g == perform_move(game0, m, game0.current_player)
        child0 == MCTSNode(from_board_to_state(g), n, m, g.current_player)
        child == IF use_puct THEN [child0 EXCEPT !.prior = puct_prior(g, m)] ELSE child0
        id == Len(ns) + 1
    IN Append([ns EXCEPT ![n].untried_moves = SubSeq(untried, 1, Len(untried) - 1),
                         ![n].children = Append(@, id)],
              child)

RECURSIVE get_rave_ancestor(_, _, _, _)
\* get_rave_ancestor(node) inside self.best_child: the first node from n upwards
\* with more visits than threshold, and self when the climb passes the root
get_rave_ancestor(ns, self, n, threshold) ==
    IF n = 0 THEN self
    ELSE IF ns[n].visits > threshold THEN n
    ELSE get_rave_ancestor(ns, self, ns[n].parent, threshold)

\* the node whose rave_visits and rave_value score() reads in a best_child call
\* on node self: the ancestor under GRAVE, self under RAVE, none otherwise
best_child_amaf(ns, self, use_rave, use_grave, threshold) ==
    IF use_grave THEN [node |-> self, table |-> get_rave_ancestor(ns, self, self, threshold)]
    ELSE IF use_rave THEN [node |-> self, table |-> self]
    ELSE [node |-> 0, table |-> 0]

\* how often move m occurs in visited_moves
Occurrences(visited_moves, m) ==
    Cardinality({i \in 1..Len(visited_moves) : visited_moves[i] = m})

RECURSIVE backpropagate(_, _, _, _, _)
\* backpropagate negating the reward at every level, whoever is to move there
backpropagateNegatesByDepth(ns, n, reward, visited_moves, use_rave) ==
    LET upd == [ns EXCEPT ![n].visits = @ + 1, ![n].value = @ + reward]
    IN IF ns[n].parent # 0
       THEN backpropagate(upd, ns[n].parent, -reward, visited_moves, use_rave)
       ELSE upd

\* MCTSNode.backpropagate called on node n
backpropagate(ns, n, reward, visited_moves, use_rave) ==
    LET upd == [ns EXCEPT
                  ![n].visits = @ + 1,
                  ![n].value = @ + reward,
                  ![n].rave_visits =
                      IF use_rave
                      THEN [m \in Pits |-> @[m] + Occurrences(visited_moves, m)]
                      ELSE @,
                  ![n].rave_value =
                      IF use_rave
                      THEN [m \in Pits |-> @[m] + reward * Occurrences(visited_moves, m)]
                      ELSE @]
        parent == ns[n].parent
    IN IF parent # 0
       THEN IF ns[parent].player = ns[n].player
            THEN backpropagate(upd, parent, reward, visited_moves, use_rave)
            ELSE backpropagate(upd, parent, -reward, visited_moves, use_rave)
       ELSE upd

RECURSIVE Playouts(_, _)
\* MCTSNode.rollout from game g with the moves made so far: every playout that
\* random.choice can produce, as [game (the terminal game), visited_moves]
Playouts(g, visited_moves) ==
    IF is_terminal(g) THEN {[game |-> g, visited_moves |-> visited_moves]}
    ELSE LET moves == valid_moves(g, g.current_player)
         IN UNION {Playouts(perform_move(g, moves[i], g.current_player),
                            Append(visited_moves, moves[i])) : i \in 1..Len(moves)}

\* reward = 1 if result > 0 else -1 if result < 0 else 0
rollout_reward(g) == IF result(g) > 0 THEN 1 ELSE IF result(g) < 0 THEN -1 ELSE 0

\* --------------------------------------------------------------------- UNMINIMAX
\* the transposition table T maps a state key to the values of its actions; the
\* actions of an entry are in the order valid_moves gave them, which is pit order

\* the actions with the largest stored value
MaxActions(entry) == {a \in DOMAIN entry : \A b \in DOMAIN entry : entry[b] <= entry[a]}

\* the actions with the smallest stored value
MinActions(entry) == {a \in DOMAIN entry : \A b \in DOMAIN entry : entry[a] <= entry[b]}

\* the first element of a set of actions in pit order
FirstAction(actions) == CHOOSE a \in actions : \A b \in actions : a <= b

\* best_action with min for player 0 and max for player 1
best_actionSwapped(table, state_key, player) ==
    IF player = 0 THEN FirstAction(MinActions(table[state_key]))
    ELSE FirstAction(MaxActions(table[state_key]))

\* UBFM.best_action: max() and min() return the first of equal actions
best_action(table, state_key, player) ==
    IF player = 0 THEN FirstAction(MaxActions(table[state_key]))
    ELSE FirstAction(MinActions(table[state_key]))

\* an entry with an action for each of the six pits of the side to move, empty or not
NewEntryAllPits(state, player) ==
    [action \in (state.current_player * 7)..(state.current_player * 7 + 5) |->
        evaluate(perform_move(state, action, state.current_player), player)]

\* the new entry of an unexplored state: every child valued by self.eval for `player`
NewEntry(state, player) ==
    LET moves == valid_moves(state, state.current_player)
    IN [action \in {moves[i] : i \in 1..Len(moves)} |->
           evaluate(perform_move(state, action, state.current_player), player)]

RECURSIVE entry_loop(_, _, _, _)
\* the for loop that fills a new entry, seen from the object `state`: every action
\* is played on a get_game_copy of it, and the copy is given to self.eval
entry_loop(state, moves, i, player) ==
    IF i > Len(moves) THEN state
    ELSE LET s_prime == game_copy(state)
         IN entry_loop(IF s_prime.shared
                       THEN evaluate_leaves(perform_move(s_prime.game, moves[i],
                                                         s_prime.game.current_player),
                                            player)
                       ELSE state,
                       moves, i + 1, player)

RECURSIVE unbounded_minimax_iteration(_, _, _)
\* UBFM.unbounded_minimax_iteration: the table after the call, the value returned,
\* the states visited with the action descended at each (None at the state the
\* call ends in), and the object `state` as the call leaves it
unbounded_minimax_iteration(table, state, player) ==
    IF is_terminal(state)
    THEN [T |-> table, value |-> evaluate(state, player),
          path |-> <<[state |-> from_board_to_state(state), action |-> None,
                      terminal |-> TRUE]>>,
          game |-> evaluate_leaves(state, player)]
    ELSE LET state_key == from_board_to_state(state)
         IN IF state_key \notin DOMAIN table
            THEN LET T1 == [k \in DOMAIN table \cup {state_key} |->
                               IF k = state_key THEN NewEntry(state, player)
                               ELSE table[k]]
                 IN [T |-> T1,
                     value |-> T1[state_key][best_action(T1, state_key, player)],
                     path |-> <<[state |-> state_key, action |-> None,
                                 terminal |-> FALSE]>>,
                     game |-> entry_loop(state, valid_moves(state, state.current_player),
                                         1, player)]
            ELSE LET best_a == best_action(table, state_key, player)
                     s_prime == game_copy(state)
                     r == unbounded_minimax_iteration(
                              table,
                              perform_move(s_prime.game, best_a, state.current_player),
                              player)
                     T2 == [r.T EXCEPT ![state_key][best_a] = r.value]
                 IN [T |-> T2,
                     value |-> T2[state_key][best_action(T2, state_key, player)],
                     path |-> <<[state |-> state_key, action |-> best_a,
                                 terminal |-> FALSE]>> \o r.path,
                     game |-> IF s_prime.shared THEN r.game ELSE state]

\* -------------------------------------------------------------------------- NMCS
\* value / depth is kept as an integer: the values are in units of 1 / DepthScale
DepthScale == 60

\* evaluate_terminal: the sign of result(), divided by depth when discounting
evaluate_terminal(g, discounting, depth) ==
    LET value == IF result(g) > 0 THEN 1 ELSE IF result(g) < 0 THEN -1 ELSE 0
    IN IF discounting THEN (value * DepthScale) \div depth ELSE value * DepthScale

RECURSIVE nested(_, _, _, _, _, _, _),
          nested_loop(_, _, _, _, _, _, _, _, _, _, _, _, _)

\* nested_loop with a cut on every improvement, a win or not
nested_loop_cuts_on_any(g, level, depth, bound, discounting, prune_on_depth, cut_on_win, player, moves, i, best_move, best_value, taken) ==
    IF i > Len(moves)
    THEN {[move |-> best_move, value |-> best_value, game |-> g, taken |-> taken]}
    ELSE LET g_copy == game_copy(g)
             moved == perform_move(g_copy.game, moves[i], player)
             subs == IF level = 0
                     THEN {[value |-> evaluate_terminal(moved, discounting, depth + 1),
                            game |-> moved, taken |-> {}]}
                     ELSE nested(moved, level - 1, depth + 1,
                                 IF prune_on_depth THEN best_value ELSE None,
                                 discounting, prune_on_depth, cut_on_win)
         IN UNION {
              LET val == r.value
                  g2 == IF g_copy.shared THEN r.game ELSE g
                  better == \/ player = 0 /\ val > best_value
                            \/ player = 1 /\ val < best_value
                  value2 == IF better THEN val ELSE best_value
                  move2 == IF better THEN moves[i] ELSE best_move
              IN IF better /\ cut_on_win
                 THEN {[move |-> move2, value |-> value2, game |-> g2, taken |-> taken]}
                 ELSE nested_loop(g2, level, depth, bound, discounting, prune_on_depth,
                                  cut_on_win, player, moves, i + 1, move2, value2, taken)
              : r \in subs}

\* the for loop of nested at move i of the shuffled list: the results it can end
\* with. A result is best_move, best_value, the object `game` as the call leaves it,
\* and taken, the updates of best_value made under a bound in the call and below it
\* (the mover, the value taken and the bound). The test of prune_on_depth comes
\* after the update and guards a continue that is the last statement of the body.
nested_loop(g, level, depth, bound, discounting, prune_on_depth, cut_on_win, player, moves, i, best_move, best_value, taken) ==
    IF i > Len(moves)
    THEN {[move |-> best_move, value |-> best_value, game |-> g, taken |-> taken]}
    ELSE LET g_copy == game_copy(g)
             moved == perform_move(g_copy.game, moves[i], player)
             subs == IF level = 0
                     THEN {[value |-> evaluate_terminal(moved, discounting, depth + 1),
                            game |-> moved, taken |-> {}]}
                     ELSE nested(moved, level - 1, depth + 1,
                                 IF prune_on_depth THEN best_value ELSE None,
                                 discounting, prune_on_depth, cut_on_win)
         IN UNION {
              LET val == r.value
                  g2 == IF g_copy.shared THEN r.game ELSE g
                  better == \/ player = 0 /\ val > best_value
                            \/ player = 1 /\ val < best_value
                  value2 == IF better THEN val ELSE best_value
                  move2 == IF better THEN moves[i] ELSE best_move
                  taken2 == taken \cup r.taken \cup
                            (IF better /\ bound # None
                             THEN {[player |-> player, val |-> val, bound |-> bound]}
                             ELSE {})
              IN IF /\ better /\ cut_on_win
                    /\ \/ player = 0 /\ val = DepthScale
                       \/ player = 1 /\ val = -DepthScale
                 THEN {[move |-> move2, value |-> value2, game |-> g2, taken |-> taken2]}
                 ELSE nested_loop(g2, level, depth, bound, discounting, prune_on_depth,
                                  cut_on_win, player, moves, i + 1, move2, value2, taken2)
              : r \in subs}

\* nested(game, level, depth, bound, discounting, prune_on_depth, cut_on_win): the
\* results of the call over the orders random.shuffle can give
nested(g, level, depth, bound, discounting, prune_on_depth, cut_on_win) ==
    IF is_terminal(g)
    THEN {[move |-> None, value |-> evaluate_terminal(g, discounting, depth),
           game |-> g, taken |-> {}]}
    ELSE UNION {nested_loop(g, level, depth, bound, discounting, prune_on_depth,
                            cut_on_win, g.current_player, order, 1, None,
                            IF g.current_player = 0 THEN -Inf ELSE Inf, {})
                : order \in Orders(valid_moves(g, g.current_player))}

\* nmcs(game, level, discounting, prune_on_depth, cut_on_win): nested from depth 1
\* with no bound
nmcs(g, level, discounting, prune_on_depth, cut_on_win) ==
    nested(g, level, 1, None, discounting, prune_on_depth, cut_on_win)

\* -------------------------------------------------------------------------- NRPA
\* the floats of NRPA are kept to MinExponent binary digits: a float is an integer
\* number of units of 2 ^ -MinExponent, and a division rounds down to a unit
Abs(x) == IF x < 0 THEN -x ELSE x

RECURSIVE Pow2(_)
Pow2(k) == IF k = 0 THEN 1 ELSE 2 * Pow2(k - 1)

Zero == 0
One == Pow2(MinExponent)

RECURSIVE ListSum(_, _)
\* sum() of the first i entries of a list
ListSum(xs, i) == IF i = 0 THEN Zero ELSE ListSum(xs, i - 1) + xs[i]

\* max() of a non-empty list
ListMax(xs) == xs[CHOOSE i \in 1..Len(xs) : \A j \in 1..Len(xs) : xs[j] <= xs[i]]

\* math.exp at an argument x <= 0: the power of two 2 ^ floor(x), which like exp is
\* 1 at 0, positive and nondecreasing, and 0.0 where the float underflows
exp(x) ==
    LET k == -(x \div One)
    IN IF k > MinExponent THEN Zero ELSE One \div Pow2(k)

\* {} : the policy maps (state, move) keys to weights
EmptyPolicy == [key \in {} |-> Zero]

\* policy.get(key, 0)
policy_get(policy, key) == IF key \in DOMAIN policy THEN policy[key] ELSE Zero

\* softmax_probs without the division by total
exp_weights_only(policy, g, moves) ==
    LET state == from_board_to_state(g)
        weights == [i \in 1..Len(moves) |-> policy_get(policy, <<state, moves[i]>>)]
        max_weight == ListMax(weights)
    IN [i \in 1..Len(moves) |-> exp(weights[i] - max_weight)]

\* softmax_probs(policy, game, moves)
softmax_probs(policy, g, moves) ==
    LET state == from_board_to_state(g)
        weights == [i \in 1..Len(moves) |-> policy_get(policy, <<state, moves[i]>>)]
        max_weight == ListMax(weights)
        exp_weights == [i \in 1..Len(moves) |-> exp(weights[i] - max_weight)]
        total == ListSum(exp_weights, Len(moves))
    IN IF total = Zero
       THEN [i \in 1..Len(moves) |-> One \div Len(moves)]
       ELSE [i \in 1..Len(moves) |-> (exp_weights[i] * One) \div total]

\* one turn of adapt's outer loop, for the pair (move, state): probs is computed
\* before the inner loop, which then writes one key per legal move
adapt_pair(policy, move, state) ==
    LET moves == [board |-> state.board, current_player |-> state.current_player,
                  last_pit |-> None]
        valid == valid_moves(moves, moves.current_player)
        probs == softmax_probs(policy, moves, valid)
        keys == {<<state, valid[i]>> : i \in 1..Len(valid)}
        index(m) == CHOOSE i \in 1..Len(valid) : valid[i] = m
    IN [key \in DOMAIN policy \cup keys |->
           IF key \in keys
           THEN IF key[2] = move
                THEN policy_get(policy, key) + One
                ELSE policy_get(policy, key) - probs[index(key[2])]
           ELSE policy[key]]

RECURSIVE adapt_from(_, _, _)
\* adapt's outer loop from pair i of the sequence
adapt_from(policy, sequence, i) ==
    IF i > Len(sequence) THEN policy
    ELSE adapt_from(adapt_pair(policy, sequence[i].move, sequence[i].state),
                    sequence, i + 1)

\* adapt(policy, sequence): the dict it was given, updated in place and returned
adapt(policy, sequence) == adapt_from(policy, sequence, 1)

RECURSIVE nrpa_rollout_from(_, _, _)
\* the while loop of nrpa_rollout: random.choices draws a move whose weight is
\* above 0; the results are [sequence, score]
nrpa_rollout_from(g, policy, sequence) ==
    IF is_terminal(g)
    THEN {[sequence |-> sequence, score |-> rollout_reward(g)]}
    ELSE LET moves == valid_moves(g, g.current_player)
             move_probs == softmax_probs(policy, g, moves)
         IN UNION {nrpa_rollout_from(
                       perform_move(g, moves[i], g.current_player), policy,
                       Append(sequence, [move |-> moves[i],
                                         state |-> from_board_to_state(g)]))
                   : i \in {j \in 1..Len(moves) : move_probs[j] # Zero}}

\* nrpa_rollout(root, policy)
nrpa_rollout(root, policy) == nrpa_rollout_from(get_game_copy(root), policy, <<>>)

\* policy = policy (the same dict) in place of policy.copy()
same_policy(policy) == [policy |-> policy, shared |-> TRUE]

\* policy.copy(): a new dict with the same keys and weights
policy_copy(policy) == [policy |-> policy, shared |-> FALSE]

RECURSIVE nrpa_level(_, _, _, _), nrpa_loop(_, _, _, _, _, _, _)
\* the for loop of nrpa after i turns: the results [sequence, score, policy] it can
\* end with, policy being the dict the call was given as the call leaves it
nrpa_loop(level, policy, iterations, root, i, best_seq, best_score) ==
    IF i = iterations
    THEN {[sequence |-> best_seq, score |-> best_score, policy |-> policy]}
    ELSE LET lower == policy_copy(policy)
         IN UNION {
              LET held == IF lower.shared THEN r.policy ELSE policy
                  better == r.score > best_score
                  seq2 == IF better THEN r.sequence ELSE best_seq
                  score2 == IF better THEN r.score ELSE best_score
              IN nrpa_loop(level, adapt(held, seq2), iterations, root, i + 1,
                           seq2, score2)
              : r \in nrpa_level(level - 1, lower.policy, iterations, root)}

\* nrpa(level, policy, iterations, root)
nrpa_level(level, policy, iterations, root) ==
    IF level = 0
    THEN {[sequence |-> r.sequence, score |-> r.score, policy |-> policy]
          : r \in nrpa_rollout(root, policy)}
    ELSE nrpa_loop(level, policy, iterations, root, 0, <<>>, -Inf)

\* ------------------------------------------------------------------- the state
VARIABLES
    game,       \* the live KalahGame of play_match
    pc,         \* where the driver is: "idle", inside a strategy, or "done"
    strategy,   \* the strategy that is running or has just returned
    move,       \* the move the strategy returned
    calls,      \* moves played on the live game so far
    mm,         \* the last direct call of minimax(): its arguments and its result
    kmcts,      \* the KalahMCTS object: its configuration
    nodes,      \* the KalahMCTS object: the tree under self.root (node 1)
    node,       \* best_move / run_shot: the node tree_policy is at, then the leaf
    sim,        \* the last rollout: its terminal game, visited_moves and reward
    iter,       \* best_move: iterations completed
    shot,       \* run_shot / run_shuss: move_nodes, k, total_k and loop counters
    playouts,   \* rollouts made by the running call
    T,          \* the UBFM object: its transposition table self.T
    ubfm,       \* UBFM.run: the player, the iterations done and the last descent
    nrpa,       \* nrpa at level 1: iterations, loop index, best_seq and best_score
    match,      \* play_match: the strategy both sides play, or "any"
    nm,         \* the last call of nmcs(): its arguments and its result
    amaf        \* the last best_child under RAVE or GRAVE: the node whose AMAF it read

vars == <<game, pc, strategy, move, calls, mm, kmcts, nodes, node, sim, iter, shot, playouts,
          T, ubfm, nrpa, match, nm, amaf>>

mctsVars == <<kmcts, nodes, node, sim, iter, shot, playouts, amaf>>

otherVars == <<T, ubfm, nrpa, match, nm>>

\* ------------------------------------------------------------ the start games
\* End games: at most MaxSeeds stones left in the pits, all of them in the three
\* pits next to each store, both sides still able to move; the other stones are
\* in the stores, split as evenly as the count allows.
NearPits == {3, 4, 5, 10, 11, 12}

PitSeeds(f) == f[3] + f[4] + f[5] + f[10] + f[11] + f[12]

EndFills ==
    {f \in [NearPits -> 0..MaxSeeds] :
        /\ PitSeeds(f) <= MaxSeeds
        /\ f[3] + f[4] + f[5] > 0
        /\ f[10] + f[11] + f[12] > 0}

\* the board with the pits filled as f and s stones in player 0's store
EndBoard(f, s) ==
    [i \in Pits |-> IF i \in NearPits THEN f[i]
                    ELSE IF i = 6 THEN s
                    ELSE IF i = 13 THEN 12 * InitialSeeds - PitSeeds(f) - s
                    ELSE 0]

EndBoards ==
    UNION {{EndBoard(f, (12 * InitialSeeds - PitSeeds(f)) \div 2),
            EndBoard(f, (12 * InitialSeeds - PitSeeds(f) + 1) \div 2)} : f \in EndFills}

StartGames ==
    {NewGame} \cup
    {[board |-> b, current_player |-> p, last_pit |-> None] :
        b \in EndBoards, p \in Players}

NoCall == [state |-> NewGame, depth |-> 0, player |-> 0, score |-> 0, move |-> None,
           evals |-> 0, called |-> FALSE]

NoSim == [game |-> NewGame, visited_moves |-> <<>>, reward |-> 0]

\* no UBFM.run under way
NoRun == [player |-> 0, iterations |-> 0, path |-> <<>>]

\* no nmcs call made
NoNmcs == [state |-> NewGame, level |-> 0, discounting |-> FALSE, prune_on_depth |-> FALSE,
           cut_on_win |-> FALSE, value |-> 0, taken |-> {}, called |-> FALSE]

\* no nrpa call under way
NoNrpa == [level |-> 0, iterations |-> 0, i |-> 0, best_seq |-> <<>>,
           best_score |-> -Inf, policy |-> EmptyPolicy, adapting |-> FALSE]

\* no best_child has read an AMAF table
NoAmaf == [node |-> 0, table |-> 0]

NoShot == [move_nodes |-> <<>>, k |-> 0, total_k |-> 0, idx |-> 0, sims |-> 0,
           simulations_per_node |-> 0, rounds |-> 0, candidates |-> <<>>]

Modes == {"UCT", "RAVE", "GRAVE", "PUCT", "SHOT", "SHUSS"}

\* KalahMCTS.__init__ as play_match calls it, one object per mode
KalahMCTS(mode, iterations, threshold) ==
    [iterations |-> iterations,
     use_rave |-> mode = "RAVE", use_grave |-> mode = "GRAVE", use_puct |-> mode = "PUCT",
     use_shot |-> mode = "SHOT", use_shuss |-> mode = "SHUSS", threshold |-> threshold]

ModeOf(k) ==
    IF k.use_shot THEN "SHOT" ELSE IF k.use_shuss THEN "SHUSS" ELSE
    IF k.use_rave THEN "RAVE" ELSE IF k.use_grave THEN "GRAVE" ELSE
    IF k.use_puct THEN "PUCT" ELSE "UCT"

\* the names of the players dict of play_match
Strategies == Modes \cup {"random", "Minimax", "NRPA", "NMCS", "Unbounded Minimax"}

\* the match is played with strategy name, or with any strategy
Plays(name) == match \in {"any", name}

\* the live game, and no strategy running
InitGame ==
    /\ game \in StartGames
    /\ pc = "idle"
    /\ strategy = "none"
    /\ move = None
    /\ calls = 0
    /\ mm = NoCall
    /\ T = <<>>
    /\ ubfm = NoRun
    /\ nrpa = NoNrpa
    /\ nm = NoNmcs

\* mcts = KalahMCTS(game, iterations = ..., use_... = True): the constructor builds
\* a root for the game it is given
InitMCTS(configs) ==
    /\ kmcts \in configs
    /\ nodes = <<MCTSNode(from_board_to_state(game), 0, None, game.current_player)>>
    /\ node = 1
    /\ sim = NoSim
    /\ iter = 0
    /\ shot = NoShot
    /\ playouts = 0
    /\ amaf = NoAmaf

\* the objects of play_match that a specification does not call
DefaultIterations == 1000
DefaultThreshold == 30
UnusedMCTS == InitMCTS({KalahMCTS("UCT", DefaultIterations, DefaultThreshold)})

Init == InitGame /\ UnusedMCTS /\ match = "any"

\* --------------------------------------------------------------- the driver
\* "random": random_move, any legal move of the side to move
RandomMove ==
    /\ pc = "idle" /\ calls < MaxCalls /\ ~is_terminal(game)
    /\ Plays("random")
    /\ \E i \in 1..Len(valid_moves(game, game.current_player)) :
           move' = valid_moves(game, game.current_player)[i]
    /\ strategy' = "random"
    /\ pc' = "done"
    /\ UNCHANGED <<game, calls, mm, mctsVars, otherVars>>

\* play_match: game.perform_move(move, current), then the next turn; the locals of
\* the call that chose the move are gone, the objects (the KalahMCTS tree, the UBFM
\* table) stay
ApplyMove ==
    /\ pc = "done"
    /\ game' = perform_move(game, move, game.current_player)
    /\ pc' = "idle"
    /\ calls' = calls + 1
    /\ mm' = NoCall
    /\ strategy' = "none"
    /\ move' = None
    /\ node' = 1 /\ sim' = NoSim /\ iter' = 0 /\ shot' = NoShot /\ playouts' = 0
    /\ ubfm' = NoRun /\ nrpa' = NoNrpa
    /\ nm' = NoNmcs /\ amaf' = NoAmaf
    /\ UNCHANGED <<kmcts, nodes, T, match>>

\* ------------------------------------------------------------ minimax calls
\* a direct call minimax(game, depth, -inf, +inf, minimax_player)
Minimax(depth, minimax_player) ==
    /\ pc = "idle" /\ calls < MaxCalls
    /\ Plays("Minimax")
    /\ LET r == minimax(game, depth, -Inf, Inf, minimax_player)
       IN /\ mm' = [state |-> game, depth |-> depth, player |-> minimax_player,
                    score |-> r.score, move |-> r.move, evals |-> r.evals,
                    called |-> TRUE]
          /\ game' = r.game
    /\ pc' = "returned"
    /\ UNCHANGED <<strategy, move, calls, mctsVars, otherVars>>

\* the caller drops the result of a direct call
Discard ==
    /\ pc = "returned"
    /\ pc' = "idle"
    /\ mm' = NoCall
    /\ UNCHANGED <<game, strategy, move, calls, mctsVars, otherVars>>

\* "Minimax": minimax_move(g, depth)
MinimaxMove(depth) ==
    /\ pc = "idle" /\ calls < MaxCalls /\ ~is_terminal(game)
    /\ Plays("Minimax")
    /\ move' = minimax_move(game, depth)
    /\ game' = minimax(game, depth, -Inf, Inf, game.current_player).game
    /\ strategy' = "Minimax"
    /\ pc' = "done"
    /\ UNCHANGED <<calls, mm, mctsVars, otherVars>>

\* ------------------------------------------------------------- KalahMCTS calls
\* the live games small enough for rollouts to be enumerated
RolloutSized(g) == SumRange(g.board, 0, 6) + SumRange(g.board, 7, 13) < MaxSeeds

\* a budget with no division by the number of rounds
WholeBudgetPerRound(x) == 1

RECURSIVE Log2Floor(_)
\* int(math.log2(x)) for x >= 1
Log2Floor(x) == IF x < 2 THEN 0 ELSE 1 + Log2Floor(x \div 2)

\* the start of run_shot / run_shuss: one child node per legal move of the root,
\* with the root as parent but outside root.children
ShotCandidates(root, moves) ==
    [i \in 1..Len(moves) |->
        LET g_copy == perform_move(get_game_copy(root.game_state), moves[i],
                                   root.game_state.current_player)
        IN MCTSNode(from_board_to_state(g_copy), 1, moves[i], g_copy.current_player)]

\* the budget of a halving call is too small for a single playout
NoPlayouts(k, g) ==
    /\ k.use_shot \/ k.use_shuss
    /\ LET n == Len(valid_moves(g, g.current_player))
       IN k.iterations < n * Log2Floor(n + 1)

\* the body of best_move
BestMoveCall ==
    /\ strategy' = ModeOf(kmcts)
    /\ LET root == MCTSNode(from_board_to_state(game), 0, None, game.current_player)
           moves == valid_moves(get_game_copy(root.game_state),
                                root.game_state.current_player)
           cand == ShotCandidates(root, moves)
           k == Len(moves)
       IN IF kmcts.use_shot \/ kmcts.use_shuss
          THEN /\ nodes' = <<root>> \o cand
               /\ shot' = [move_nodes |-> [i \in 1..k |-> [move |-> moves[i], node |-> i + 1]],
                           k |-> k, total_k |-> k, idx |-> 0, sims |-> 0,
                           simulations_per_node |-> 0, rounds |-> 0, candidates |-> moves]
               /\ IF k = 1
                  THEN pc' = "done" /\ move' = moves[1]
                  ELSE pc' = "shot_round" /\ move' = None
          ELSE /\ nodes' = <<root>>
               /\ shot' = NoShot
               /\ move' = None
               /\ pc' = IF kmcts.iterations > 0 THEN "tree_policy" ELSE "best_child"
    /\ node' = 1
    /\ iter' = 0
    /\ sim' = NoSim
    /\ playouts' = 0
    /\ amaf' = NoAmaf
    /\ UNCHANGED <<game, calls, mm, kmcts, otherVars>>

\* KalahMCTS.best_move(game): a new root, then the halving driver or the first
\* tree_policy
BestMove ==
    /\ pc = "idle" /\ calls < MaxCalls /\ ~is_terminal(game)
    /\ Plays(ModeOf(kmcts))
    /\ RolloutSized(game) \/ NoPlayouts(kmcts, game)
    /\ BestMoveCall

\* one turn of the while loop of tree_policy: return the node if it is terminal,
\* return a new child if a move is untried, else go down to the best child.
\* best_child's score uses sqrt and log of floats: the model lets it be any child.
TreePolicy ==
    /\ pc = "tree_policy"
    /\ IF terminal_state(nodes[node])
       THEN pc' = "rollout" /\ UNCHANGED <<nodes, node, amaf>>
       ELSE IF ~is_fully_expanded(nodes[node])
       THEN /\ nodes' = expand(nodes, node, kmcts.use_puct)
            /\ node' = Len(nodes) + 1
            /\ pc' = "rollout"
            /\ UNCHANGED amaf
       ELSE /\ \E i \in 1..Len(nodes[node].children) : node' = nodes[node].children[i]
            /\ amaf' = best_child_amaf(nodes, node, kmcts.use_rave, kmcts.use_grave,
                                       DefaultThreshold)
            /\ pc' = "tree_policy"
            /\ UNCHANGED nodes
    /\ UNCHANGED <<game, strategy, move, calls, mm, kmcts, sim, iter, shot, playouts, otherVars>>

\* reward, visited_moves = node.rollout()
Rollout ==
    /\ pc = "rollout"
    /\ \E r \in Playouts(get_game_copy(nodes[node].game_state), <<>>) :
           sim' = [game |-> r.game, visited_moves |-> r.visited_moves,
                   reward |-> rollout_reward(r.game)]
    /\ playouts' = playouts + 1
    /\ pc' = "backpropagate"
    /\ UNCHANGED <<game, strategy, move, calls, mm, kmcts, nodes, node, iter, shot, amaf, otherVars>>

\* node.backpropagate(reward, visited_moves, use_rave), and the loop it is in
Backpropagate ==
    /\ pc = "backpropagate"
    /\ nodes' = backpropagate(nodes, node, sim.reward, sim.visited_moves,
                              IF kmcts.use_shot THEN FALSE
                              ELSE IF kmcts.use_shuss THEN TRUE
                              ELSE kmcts.use_rave \/ kmcts.use_grave)
    /\ IF kmcts.use_shot \/ kmcts.use_shuss
       THEN \* the two for loops of a halving round
            /\ iter' = iter
            /\ IF shot.sims + 1 < shot.simulations_per_node
               THEN /\ shot' = [shot EXCEPT !.sims = @ + 1]
                    /\ node' = shot.move_nodes[shot.idx].node
                    /\ pc' = "tree_policy"
               ELSE IF shot.idx < Len(shot.move_nodes)
               THEN /\ shot' = [shot EXCEPT !.sims = 0, !.idx = @ + 1]
                    /\ node' = shot.move_nodes[shot.idx + 1].node
                    /\ pc' = "tree_policy"
               ELSE /\ shot' = shot
                    /\ node' = node
                    /\ pc' = "shot_rank"
       ELSE \* for _ in range(self.iterations)
            /\ iter' = iter + 1
            /\ shot' = shot
            /\ node' = 1
            /\ pc' = IF iter + 1 < kmcts.iterations THEN "tree_policy" ELSE "best_child"
    /\ UNCHANGED <<game, strategy, move, calls, mm, kmcts, sim, playouts, amaf, otherVars>>

\* return self.root.best_child(...).move; max() of no children raises ValueError
BestChild ==
    /\ pc = "best_child"
    /\ IF nodes[1].children = <<>>
       THEN pc' = "raised" /\ move' = move /\ amaf' = amaf
       ELSE /\ \E i \in 1..Len(nodes[1].children) : move' = nodes[nodes[1].children[i]].move
            /\ amaf' = best_child_amaf(nodes, 1, kmcts.use_rave, kmcts.use_grave,
                                       kmcts.threshold)
            /\ pc' = "done"
    /\ UNCHANGED <<game, strategy, calls, mm, kmcts, nodes, node, sim, iter, shot, playouts,
                   otherVars>>

\* the head of a halving round: the playouts each surviving candidate gets
ShotRound ==
    /\ pc = "shot_round"
    /\ LET n == kmcts.iterations \div (shot.k * Log2Floor(shot.total_k + 1))
       IN /\ shot' = [shot EXCEPT !.simulations_per_node = n, !.idx = 1, !.sims = 0]
          /\ IF n > 0
             THEN pc' = "tree_policy" /\ node' = shot.move_nodes[1].node
             ELSE pc' = "shot_rank" /\ node' = node
    /\ UNCHANGED <<game, strategy, move, calls, mm, kmcts, nodes, sim, iter, playouts, amaf, otherVars>>

\* value / (visits + 1e-4) of node a is larger than that of node b
MeanGreater(a, b) == a.value * (b.visits * 10000 + 1) > b.value * (a.visits * 10000 + 1)

RECURSIVE SortByMean(_, _)
\* move_nodes.sort(key = mean value, reverse = True): stable, best first
SortByMean(ns, move_nodes) ==
    IF Len(move_nodes) <= 1 THEN move_nodes
    ELSE LET sorted == SortByMean(ns, SubSeq(move_nodes, 1, Len(move_nodes) - 1))
             x == move_nodes[Len(move_nodes)]
             \* x goes after every entry that is not smaller than it
             before == {i \in 1..Len(sorted) :
                           \A j \in 1..i : ~MeanGreater(ns[x.node], ns[sorted[j].node])}
             at == IF before = {} THEN 0 ELSE CHOOSE i \in before : \A j \in before : j <= i
         IN SubSeq(sorted, 1, at) \o <<x>> \o SubSeq(sorted, at + 1, Len(sorted))

\* a slower cut of the candidates: one candidate fewer each round
HalveByOne(k) == k - 1

\* k = k // 2
Halve(k) == k \div 2

\* the end of a halving round: sort, k = k // 2, keep the first max(1, k)
ShotRank ==
    /\ pc = "shot_rank"
    /\ \E sorted \in (IF kmcts.use_shot THEN {SortByMean(nodes, shot.move_nodes)}
                        ELSE Orders(shot.move_nodes)) :
          LET k == Halve(shot.k)
              kept == SubSeq(sorted, 1, Max(1, k))
          IN /\ shot' = [shot EXCEPT !.move_nodes = kept, !.k = k, !.rounds = @ + 1]
             /\ IF k > 1
                THEN pc' = "shot_round" /\ move' = move
                ELSE pc' = "done" /\ move' = kept[1].move
    /\ UNCHANGED <<game, strategy, calls, mm, kmcts, nodes, node, sim, iter, playouts, amaf, otherVars>>

NextMCTS ==
    \/ BestMove
    \/ TreePolicy
    \/ Rollout
    \/ Backpropagate
    \/ BestChild
    \/ ShotRound
    \/ ShotRank
    \/ ApplyMove

\* the thresholds a GRAVE object is given besides the default, and the budgets that
\* let a node below the root be scored after the root has more visits than it
Thresholds == MaxIter - 1 .. MaxIter
GraveIterations == {MaxIter + 2}

InitBestMove ==
    /\ InitGame
    /\ InitMCTS({KalahMCTS(mode, n, DefaultThreshold) : mode \in Modes, n \in 0..MaxIter}
                \cup {KalahMCTS("GRAVE", n, t) : n \in GraveIterations, t \in Thresholds})
    /\ match = "any"

SpecMCTS == InitBestMove /\ [][NextMCTS]_vars

\* --------------------------------------------- the halving rounds on large games
\* Games with k legal moves for the side to move, k = 1..SidePits: the opening board
\* with the stones of the side's other pits already in its store. Their playouts are
\* too many to enumerate, so a playout is modelled by its count and its reward.
HalvingBoard(k, p) ==
    [i \in Pits |-> IF i \in p * 7 + k .. p * 7 + SidePits - 1 THEN 0
                    ELSE IF i = p * 7 + SidePits THEN InitialSeeds * (SidePits - k)
                    ELSE NewGame.board[i]]

HalvingGames ==
    {[board |-> HalvingBoard(k, p), current_player |-> p, last_pit |-> None] :
        k \in 1..SidePits, p \in Players}

\* best_move on a game of any size
HalvingBestMove ==
    /\ pc = "idle" /\ ~is_terminal(game)
    /\ kmcts.use_shot \/ kmcts.use_shuss
    /\ BestMoveCall

\* one turn of the inner for loop of a halving round: tree_policy, rollout and
\* backpropagate, with the leaf taken to be the candidate and the reward of the
\* playout any of -1, 0, 1; then the two for loops, as in Backpropagate
Playout ==
    /\ pc = "tree_policy"
    /\ \E reward \in {-1, 0, 1} : nodes' = backpropagate(nodes, node, reward, <<>>, FALSE)
    /\ playouts' = playouts + 1
    /\ IF shot.sims + 1 < shot.simulations_per_node
       THEN /\ shot' = [shot EXCEPT !.sims = @ + 1]
            /\ node' = shot.move_nodes[shot.idx].node
            /\ pc' = "tree_policy"
       ELSE IF shot.idx < Len(shot.move_nodes)
       THEN /\ shot' = [shot EXCEPT !.sims = 0, !.idx = @ + 1]
            /\ node' = shot.move_nodes[shot.idx + 1].node
            /\ pc' = "tree_policy"
       ELSE /\ shot' = shot
            /\ node' = node
            /\ pc' = "shot_rank"
    /\ UNCHANGED <<game, strategy, move, calls, mm, kmcts, sim, iter, amaf, otherVars>>

NextHalving ==
    \/ HalvingBestMove
    \/ ShotRound
    \/ Playout
    \/ ShotRank

InitHalving ==
    /\ game \in HalvingGames
    /\ pc = "idle" /\ strategy = "none" /\ move = None /\ calls = 0
    /\ mm = NoCall /\ T = <<>> /\ ubfm = NoRun /\ nrpa = NoNrpa /\ nm = NoNmcs
    /\ InitMCTS({KalahMCTS(mode, budget, DefaultThreshold) :
                    mode \in {"SHOT", "SHUSS"}, budget \in 0..MaxBudget})
    /\ match = "any"

SpecHalving == InitHalving /\ [][NextHalving]_vars

\* ------------------------------------------------- a playout, move by move
\* The games a playout is started from: every way to leave at most MaxSeeds stones
\* in the twelve pits with both sides able to move, either side to move, the other
\* stones in the stores.
RECURSIVE Fills(_, _)
\* the ways to put at most s stones in n pits, as sequences of n counts
Fills(n, s) ==
    IF n = 0 THEN {<<>>}
    ELSE UNION {{Append(f, x) : f \in Fills(n - 1, s - x)} : x \in 0..s}

PitFills ==
    {f \in Fills(2 * SidePits, MaxSeeds) :
        /\ SumRange(f, 1, SidePits + 1) > 0
        /\ SumRange(f, SidePits + 1, 2 * SidePits + 1) > 0}

PlayoutGames ==
    {[board |-> [i \in Pits |->
                    IF i = 6 THEN SidePits * InitialSeeds - SumRange(f, 1, SidePits + 1)
                    ELSE IF i = 13
                    THEN SidePits * InitialSeeds - SumRange(f, SidePits + 1, 2 * SidePits + 1)
                    ELSE IF i < 6 THEN f[i + 1] ELSE f[i]],
      current_player |-> p, last_pit |-> None] : f \in PitFills, p \in Players}

\* MCTSNode.rollout / nrpa_rollout: one turn of "while not game.is_terminal()",
\* any move valid_moves offers to the side to move. The list of the moves made,
\* which the loop only appends to, is left out: with it no two states of a playout
\* would be equal and a playout that comes back to a position would not show.
RolloutMove ==
    /\ pc = "playing"
    /\ ~is_terminal(sim.game)
    /\ \E i \in 1..Len(valid_moves(sim.game, sim.game.current_player)) :
          /\ move' = valid_moves(sim.game, sim.game.current_player)[i]
          /\ sim' = [sim EXCEPT !.game = perform_move(sim.game, move', sim.game.current_player)]
    /\ UNCHANGED <<game, pc, strategy, calls, mm, kmcts, nodes, node, iter, shot,
                   playouts, amaf, otherVars>>

\* the loop is left: result, reward, return
RolloutReturn ==
    /\ pc = "playing"
    /\ is_terminal(sim.game)
    /\ sim' = [sim EXCEPT !.reward = rollout_reward(sim.game)]
    /\ pc' = "returned"
    /\ UNCHANGED <<game, strategy, move, calls, mm, kmcts, nodes, node, iter, shot,
                   playouts, amaf, otherVars>>

NextRollout ==
    \/ RolloutMove
    \/ RolloutReturn

\* game = self.get_game_copy(), visited_moves = []
InitRollout ==
    /\ game \in PlayoutGames
    /\ pc = "playing" /\ strategy = "none" /\ move = None /\ calls = 0
    /\ mm = NoCall /\ T = <<>> /\ ubfm = NoRun /\ nrpa = NoNrpa /\ nm = NoNmcs
    /\ kmcts = KalahMCTS("UCT", DefaultIterations, DefaultThreshold)
    /\ nodes = <<MCTSNode(from_board_to_state(game), 0, None, game.current_player)>>
    /\ node = 1
    /\ sim = [game |-> get_game_copy(nodes[1].game_state), visited_moves |-> <<>>, reward |-> 0]
    /\ iter = 0 /\ shot = NoShot /\ playouts = 0 /\ amaf = NoAmaf
    /\ match = "any"

\* a running loop takes its next turn
SpecRollout == InitRollout /\ [][NextRollout]_vars /\ WF_vars(NextRollout)

\* ------------------------------------------------------------------ UBFM calls
\* UBFM(evaluate): a new agent with an empty table (play_match makes one per move)
NewUBFM ==
    /\ pc = "idle" /\ DOMAIN T # {}
    /\ Plays("Unbounded Minimax")
    /\ T' = <<>>
    /\ UNCHANGED <<game, pc, strategy, move, calls, mm, mctsVars, ubfm, nrpa, match, nm>>

\* agent.run(g, g.current_player, time_limit_seconds): start = time.time()
UBFMRun ==
    /\ pc = "idle" /\ calls < MaxCalls /\ ~is_terminal(game)
    /\ Plays("Unbounded Minimax")
    /\ strategy' = "Unbounded Minimax"
    /\ ubfm' = [player |-> game.current_player, iterations |-> 0, path |-> <<>>]
    /\ pc' = "ubfm_run"
    /\ move' = None
    /\ UNCHANGED <<game, calls, mm, mctsVars, T, nrpa, match, nm>>

\* one turn of the while loop of run: time is left, one more iteration from the root
UBFMIteration ==
    /\ pc = "ubfm_run" /\ ubfm.iterations < MaxRunIterations
    /\ LET r == unbounded_minimax_iteration(T, game, ubfm.player)
       IN /\ T' = r.T
          /\ ubfm' = [ubfm EXCEPT !.iterations = @ + 1, !.path = r.path]
          /\ game' = r.game
    /\ UNCHANGED <<pc, strategy, move, calls, mm, mctsVars, nrpa, match, nm>>

\* the time is up: return self.best_action(root_key, player); self.T[root_key]
\* raises KeyError when the root has no entry
UBFMReturn ==
    /\ pc = "ubfm_run"
    /\ LET root_key == from_board_to_state(game)
       IN IF root_key \in DOMAIN T
          THEN move' = best_action(T, root_key, ubfm.player) /\ pc' = "done"
          ELSE move' = move /\ pc' = "raised"
    /\ UNCHANGED <<game, strategy, calls, mm, mctsVars, T, ubfm, nrpa, match, nm>>

\* the live games small enough for the orders of random.shuffle to be enumerated
ShuffleSized(g) == SumRange(g.board, 0, 6) + SumRange(g.board, 7, 13) <= MaxSeeds

\* ------------------------------------------------------------------ NMCS calls
\* "NMCS": nmcs(g, level, discounting, prune_on_depth, cut_on_win)[0], on the games
\* small enough for the shuffles to be enumerated
Nmcs(level, discounting, prune_on_depth, cut_on_win) ==
    /\ pc = "idle" /\ calls < MaxCalls /\ ~is_terminal(game)
    /\ Plays("NMCS")
    /\ ShuffleSized(game)
    /\ \E r \in nmcs(game, level, discounting, prune_on_depth, cut_on_win) :
          /\ move' = r.move
          /\ game' = r.game
          /\ nm' = [state |-> game, level |-> level, discounting |-> discounting,
                    prune_on_depth |-> prune_on_depth, cut_on_win |-> cut_on_win,
                    value |-> r.value, taken |-> r.taken, called |-> TRUE]
    /\ strategy' = "NMCS"
    /\ pc' = "done"
    /\ UNCHANGED <<calls, mm, mctsVars, T, ubfm, nrpa, match>>

\* ------------------------------------------------------------------ NRPA calls
\* the weights a given policy holds in the model: a reinforced move, a weakened
\* move, and a move so far below the others that its exponential is 0.0
Weights == {One, -(One \div 2), -1000 * One}

\* the policies a call is given: {}, or a weight for one move of the root
Policies(g) ==
    LET moves == valid_moves(g, g.current_player)
        keys == {<<from_board_to_state(g), moves[i]>> : i \in 1..Len(moves)}
    IN {EmptyPolicy} \cup {[key \in {k} |-> w] : k \in keys, w \in Weights}

\* the nesting levels: rollouts below the level (1), nrpa calls below it (2)
NrpaLevels == {1, 2}

\* the live games small enough for the rollouts below a level to be enumerated
NestingSized(g, level) ==
    SumRange(g.board, 0, 6) + SumRange(g.board, 7, 13) + level <= MaxSeeds

\* nrpa(level, policy, iterations, MCTSNode(g.from_board_to_state(), ...))
Nrpa(level, policy, iterations) ==
    /\ pc = "idle" /\ calls < MaxCalls /\ ~is_terminal(game)
    /\ Plays("NRPA")
    /\ NestingSized(game, level)
    /\ strategy' = "NRPA"
    /\ nrpa' = [level |-> level, iterations |-> iterations, i |-> 0,
                best_seq |-> <<>>, best_score |-> -Inf, policy |-> policy,
                adapting |-> FALSE]
    /\ pc' = "nrpa"
    /\ move' = None
    /\ UNCHANGED <<game, calls, mm, mctsVars, T, ubfm, match, nm>>

\* one turn of the for loop, up to the update of best_seq: the lower call is given
\* policy.copy() and a better score replaces best_seq
NrpaCall ==
    /\ pc = "nrpa" /\ nrpa.i < nrpa.iterations /\ ~nrpa.adapting
    /\ LET lower == policy_copy(nrpa.policy)
       IN \E r \in nrpa_level(nrpa.level - 1, lower.policy, nrpa.iterations,
                              from_board_to_state(game)) :
             LET held == IF lower.shared THEN r.policy ELSE nrpa.policy
             IN nrpa' = IF r.score > nrpa.best_score
                        THEN [nrpa EXCEPT !.best_seq = r.sequence,
                                          !.best_score = r.score,
                                          !.policy = held, !.adapting = TRUE]
                        ELSE [nrpa EXCEPT !.policy = held, !.adapting = TRUE]
    /\ UNCHANGED <<game, pc, strategy, move, calls, mm, mctsVars, T, ubfm, match, nm>>

\* the end of the turn: policy = adapt(policy, best_seq)
NrpaAdapt ==
    /\ pc = "nrpa" /\ nrpa.adapting
    /\ nrpa' = [nrpa EXCEPT !.policy = adapt(nrpa.policy, nrpa.best_seq),
                            !.i = @ + 1, !.adapting = FALSE]
    /\ UNCHANGED <<game, pc, strategy, move, calls, mm, mctsVars, T, ubfm, match, nm>>

\* return best_seq, best_score, and the caller's [0][0][0]: the move of the first
\* pair of best_seq; IndexError when best_seq is empty
NrpaReturn ==
    /\ pc = "nrpa" /\ nrpa.i = nrpa.iterations
    /\ IF nrpa.best_seq = <<>>
       THEN move' = move /\ pc' = "raised"
       ELSE move' = nrpa.best_seq[1].move /\ pc' = "done"
    /\ UNCHANGED <<game, strategy, calls, mm, mctsVars, otherVars>>

NextNRPA ==
    \/ \E level \in NrpaLevels, iterations \in 0..MaxIter :
          \E policy \in IF level = 1 THEN Policies(game) ELSE {EmptyPolicy} :
             Nrpa(level, policy, iterations)
    \/ NrpaCall
    \/ NrpaAdapt
    \/ NrpaReturn
    \/ ApplyMove

InitNRPA == InitGame /\ UnusedMCTS /\ match = "NRPA"

SpecNRPA == InitNRPA /\ [][NextNRPA]_vars

NextUBFM ==
    \/ NewUBFM
    \/ UBFMRun
    \/ UBFMIteration
    \/ UBFMReturn
    \/ ApplyMove

SpecUBFM == Init /\ [][NextUBFM]_vars

NextPlay ==
    \/ BestMove
    \/ TreePolicy
    \/ Rollout
    \/ Backpropagate
    \/ BestChild
    \/ ShotRound
    \/ ShotRank
    \/ \E d \in 1..MaxDepth : MinimaxMove(d)
    \/ \E level \in 0..MaxLevel : Nmcs(level, FALSE, FALSE, FALSE)
    \/ \E n \in 0..MaxIter : Nrpa(1, EmptyPolicy, n)
    \/ NrpaCall
    \/ NrpaAdapt
    \/ NrpaReturn
    \/ NewUBFM
    \/ UBFMRun
    \/ UBFMIteration
    \/ UBFMReturn
    \/ RandomMove
    \/ ApplyMove

\* nmcs with every setting of its flags, as the tuning grid calls it
NextNMCS ==
    \/ \E level \in 0..MaxLevel, discounting, prune_on_depth, cut_on_win \in BOOLEAN :
          Nmcs(level, discounting, prune_on_depth, cut_on_win)
    \/ ApplyMove

InitNMCS == InitGame /\ UnusedMCTS /\ match = "NMCS"

SpecNMCS == InitNMCS /\ [][NextNMCS]_vars

\* play_match(name, name): both sides play the same strategy
InitPlay ==
    /\ InitGame
    /\ match \in Strategies
    /\ IF match \in Modes
       THEN InitMCTS({KalahMCTS(match, n, DefaultThreshold) : n \in 0..MaxIter})
       ELSE UnusedMCTS

SpecPlay == InitPlay /\ [][NextPlay]_vars

NextMinimax ==
    \/ \E d \in 0..MaxDepth, p \in Players : Minimax(d, p)
    \/ \E d \in 1..MaxDepth : MinimaxMove(d)
    \/ Discard
    \/ RandomMove
    \/ ApplyMove

SpecMinimax == Init /\ [][NextMinimax]_vars

\* ------------------------------------------------------------------ claims
RECURSIVE full_width(_, _, _)
\* minimax without pruning: every child searched, with no window
full_width(g, depth, p) ==
    IF depth = 0 \/ is_terminal(g) THEN evaluate(g, p)
    ELSE LET moves == valid_moves(g, g.current_player)
             vals == {full_width(perform_move(g, moves[i], g.current_player), depth - 1, p) :
                         i \in 1..Len(moves)}
         IN IF g.current_player = p
            THEN CHOOSE v \in vals : \A w \in vals : w <= v
            ELSE CHOOSE v \in vals : \A w \in vals : v <= w

RECURSIVE full_width_evals(_, _)
\* the evaluate() calls of the full-width search
full_width_evals(g, depth) ==
    IF depth = 0 \/ is_terminal(g) THEN 1
    ELSE LET moves == valid_moves(g, g.current_player)
             Sum[i \in 0..Len(moves)] ==
                 IF i = 0 THEN 0
                 ELSE Sum[i - 1]
                      + full_width_evals(perform_move(g, moves[i], g.current_player), depth - 1)
         IN Sum[Len(moves)]

\* the game has a move on its first two plies that keeps the turn
HasExtraTurn(g) ==
    \E i \in 1..Len(valid_moves(g, g.current_player)) :
        LET g1 == perform_move(g, valid_moves(g, g.current_player)[i], g.current_player)
        IN g1.current_player = g.current_player /\ ~is_terminal(g1)

\* C1: the score minimax returns with the full window equals the score of the
\* full-width search without pruning, at every depth and for either optimizing player
C1_PruningKeepsValue ==
    mm.called => mm.score = full_width(mm.state, mm.depth, mm.player)

\* a call that pruned (fewer evaluations than the full-width search) on a game with
\* an extra turn inside the searched tree, optimizing for the side not to move
C1_Witness ==
    /\ mm.called /\ mm.depth >= 2
    /\ mm.evals < full_width_evals(mm.state, mm.depth)
    /\ HasExtraTurn(mm.state)
    /\ mm.player # mm.state.current_player

RECURSIVE PathToRoot(_, _)
\* node n and its ancestors
PathToRoot(ns, n) == IF n = 0 THEN {} ELSE {n} \cup PathToRoot(ns, ns[n].parent)

\* C2: backpropagate adds one visit to every node from the leaf to the root, and a
\* parent's value changes by what its child's value changed by when both have the same
\* player, and by the negation of it when their players differ
C2_BackpropSign ==
    [][pc = "backpropagate" =>
        \A n \in PathToRoot(nodes, node) :
            LET P == nodes[n].parent
            IN /\ nodes'[n].visits = nodes[n].visits + 1
               /\ P # 0 =>
                   /\ nodes'[P].visits = nodes[P].visits + 1
                   /\ nodes'[P].value - nodes[P].value =
                        IF nodes[P].player = nodes[n].player
                        THEN nodes'[n].value - nodes[n].value
                        ELSE -(nodes'[n].value - nodes[n].value)]_vars

\* a backpropagated path of three nodes with an extra-turn edge and a flip edge,
\* that carried a reward other than 0
C2_Witness ==
    /\ pc \in {"tree_policy", "best_child", "shot_rank"}
    /\ playouts >= 1 /\ sim.reward # 0
    /\ \E n \in 1..Len(nodes) :
          LET P == nodes[n].parent
          IN /\ P # 0 /\ nodes[P].parent # 0
             /\ nodes[n].visits >= 1 /\ nodes[n].value # 0
             /\ (nodes[P].player = nodes[n].player)
                  # (nodes[nodes[P].parent].player = nodes[P].player)

\* the terminal result seen by player r: 1 a win, -1 a loss, 0 a draw
OutcomeFor(g, r) ==
    IF result(g) = 0 THEN 0
    ELSE IF (result(g) > 0) = (r = 0) THEN 1 ELSE -1

\* C3: one iteration changes the root's value by the rollout's result as the
\* root's player sees it (+1 a win, -1 a loss, 0 a draw), whoever is to move at the
\* node the rollout started from
C3_RewardFromRootPerspective ==
    [][pc = "backpropagate" =>
        nodes'[1].value - nodes[1].value = OutcomeFor(sim.game, nodes[1].player)]_vars

RECURSIVE CeilLog2(_)
\* the smallest r with 2^r >= k
CeilLog2(k) == IF k <= 1 THEN 0 ELSE 1 + CeilLog2((k + 1) \div 2)

RECURSIVE Depth(_, _)
\* the number of ancestors of node n
Depth(ns, n) == IF ns[n].parent = 0 THEN 0 ELSE 1 + Depth(ns, ns[n].parent)

\* a halving call (run_shot or run_shuss) is under way
InHalving == (kmcts.use_shot \/ kmcts.use_shuss)
             /\ pc \in {"shot_round", "tree_policy", "rollout", "backpropagate", "shot_rank"}

\* a variant of the halving loops: the candidates left, then the playouts left in
\* the round, then the steps left in the playout
HalvingVariant ==
    LET B == 12 + 2 * kmcts.iterations
        A == (kmcts.iterations + 3) * B
        left == IF pc = "shot_round" THEN kmcts.iterations + 1
                ELSE IF pc = "shot_rank" THEN 0
                ELSE (Len(shot.move_nodes) - shot.idx) * shot.simulations_per_node
                       + (shot.simulations_per_node - shot.sims)
        stage == IF pc = "tree_policy" THEN 3 + Len(nodes) - Depth(nodes, node)
                 ELSE IF pc = "rollout" THEN 2
                 ELSE IF pc = "backpropagate" THEN 1
                 ELSE 0
    IN shot.k * A + left * B + stage

\* C4: run_shot and run_shuss terminate (every step of a call lowers a variant that
\* stays >= 0), do at most
\* ceil(log2 k) halving rounds for k initial candidates, and return a move that
\* was one of the initial candidates
C4_HalvingTerminates ==
    /\ [](InHalving => HalvingVariant >= 0)
    /\ []((kmcts.use_shot \/ kmcts.use_shuss) /\ pc # "idle" =>
              /\ shot.rounds <= CeilLog2(Len(shot.candidates))
              /\ pc = "done" =>
                    \E i \in 1..Len(shot.candidates) : shot.candidates[i] = move)
    /\ [][InHalving =>
            \/ InHalving' /\ HalvingVariant' < HalvingVariant
            \/ pc' = "done"]_vars

\* a halving call over at least four candidates that returned after two rounds
C4_Witness ==
    /\ kmcts.use_shot \/ kmcts.use_shuss
    /\ pc = "done"
    /\ Len(shot.candidates) >= 4
    /\ shot.rounds = 2

\* one iteration of UBFM.run has just been made from the root
IterationStep == pc = "ubfm_run" /\ ubfm'.iterations = ubfm.iterations + 1

\* C5: every iteration from a non-terminal root removes no entry and either adds
\* exactly one entry to the table, or adds none and deepens one branch (the table
\* changes); at a state that was already in the table the actions stay and at most
\* one action's value is overwritten
C5_IterationGrowsTable ==
    [][IterationStep =>
        /\ DOMAIN T \subseteq DOMAIN T'
        /\ \/ Cardinality(DOMAIN T') = Cardinality(DOMAIN T) + 1
           \/ DOMAIN T' = DOMAIN T /\ T' # T
        /\ \A s \in DOMAIN T :
              /\ DOMAIN T'[s] = DOMAIN T[s]
              /\ Cardinality({a \in DOMAIN T[s] : T'[s][a] # T[s][a]}) <= 1]_vars

\* the first action in legal-move order with the largest stored value when player 0
\* is to move at the state, with the smallest when player 1 is
ChoiceOfSideToMove(table, state_key) ==
    LET entry == table[state_key]
        best == IF state_key.current_player = 0
                THEN {a \in DOMAIN entry : \A b \in DOMAIN entry : entry[b] <= entry[a]}
                ELSE {a \in DOMAIN entry : \A b \in DOMAIN entry : entry[a] <= entry[b]}
    IN CHOOSE a \in best : \A b \in best : a <= b

\* C6: at every state already in the table the action descended is the choice of
\* the side to move at that state (max for player 0, min for player 1, the first on
\* ties), and so is the action run returns at the root
C6_BestActionBySideToMove ==
    [][/\ IterationStep =>
            \A i \in 1..Len(ubfm'.path) :
                ubfm'.path[i].action # None =>
                    ubfm'.path[i].action = ChoiceOfSideToMove(T, ubfm'.path[i].state)
       /\ pc = "ubfm_run" /\ pc' = "done" =>
            move' = ChoiceOfSideToMove(T, from_board_to_state(game))]_vars

\* the move is a legal move of the side to move of the live game
IsLegal(m) ==
    /\ m # None
    /\ \E i \in 1..Len(valid_moves(game, game.current_player)) :
          valid_moves(game, game.current_player)[i] = m

\* the strategy that raised had no budget: no iteration of best_move or nrpa, no
\* completed iteration of UBFM.run
ZeroBudget ==
    \/ strategy \in Modes /\ kmcts.iterations = 0
    \/ strategy = "NRPA" /\ nrpa.iterations = 0
    \/ strategy = "Unbounded Minimax" /\ ubfm.iterations = 0

\* C7: on a non-terminal state, with a positive budget, every strategy returns (it
\* does not raise) and the move it returns is a legal move of the side to move,
\* never None
C7_LegalMove ==
    /\ pc = "done" => IsLegal(move)
    /\ pc = "raised" => ZeroBudget

\* a search strategy returned on a state with several legal moves
C7_Witness ==
    /\ pc = "done"
    /\ strategy \in Strategies \ {"random"}
    /\ Len(valid_moves(game, game.current_player)) >= 2
    /\ IsLegal(move)

\* C8: when the side to move has one legal move, best_move returns without spending
\* its budget: with a budget of two or more playouts it makes fewer
C8_SingleMoveShortCircuits ==
    pc = "done" /\ strategy \in Modes /\ kmcts.iterations >= 2
        /\ Len(valid_moves(game, game.current_player)) = 1
    => playouts < kmcts.iterations

\* C9: a run of UBFM whose time is up before the first iteration completes and
\* reports a move; it does not raise
C9_ZeroIterationsCompletes ==
    ~(pc = "raised" /\ strategy = "Unbounded Minimax" /\ ubfm.iterations = 0)

\* C10: every best_move starts from a root with no visits and no children, and every
\* UBFM.run starts with an empty table
C10_NothingShared ==
    /\ pc \in {"tree_policy", "best_child"} /\ iter = 0 /\ playouts = 0 /\ shot = NoShot
          /\ node = 1
       => nodes[1].visits = 0 /\ nodes[1].children = <<>>
    /\ pc = "ubfm_run" /\ ubfm.iterations = 0 => DOMAIN T = {}

\* play_match plays the chosen move on the live game
PlaysMove == pc = "done" /\ pc' = "idle"

\* C11: every step of a search call (best_move, minimax and minimax_move, nmcs,
\* UBFM.run, and the evaluate calls they make) leaves the game object it was given
\* as it was: board, current_player and last_pit; only play_match's own
\* perform_move changes the live game
C11_GameUnchanged == [][~PlaysMove => game' = game]_vars

\* a minimax_move call to depth 2 or more has returned on a game with several
\* moves: sibling branches were explored on copies and evaluate ran at the leaves
C11_Witness ==
    /\ pc = "done" /\ strategy = "Minimax"
    /\ Len(valid_moves(game, game.current_player)) >= 2
    /\ \E depth \in 2..MaxDepth :
          LET r == minimax(game, depth, -Inf, Inf, game.current_player)
          IN r.move = move /\ r.evals >= 3

\* a probability vector: no entry below 0, and the entries sum to 1 within the
\* rounding of one division per entry
Normalised(probs) ==
    /\ \A i \in 1..Len(probs) : probs[i] >= Zero
    /\ Abs(ListSum(probs, Len(probs)) - One) <= Len(probs)

\* the games softmax_probs is called on under the policy the level holds: the root
\* and the states of the best sequence
SoftmaxGames ==
    {game} \cup {[board |-> nrpa.best_seq[i].state.board,
                  current_player |-> nrpa.best_seq[i].state.current_player,
                  last_pit |-> None] : i \in 1..Len(nrpa.best_seq)}

\* C12: for every policy and every non-empty list of legal moves the vector
\* softmax_probs returns has no negative entry and sums to 1, also when all the
\* weights are equal and when exponentials underflow to 0.0
C12_SoftmaxNormalised ==
    pc = "nrpa" =>
       \A g \in SoftmaxGames :
          Normalised(softmax_probs(nrpa.policy, g, valid_moves(g, g.current_player)))

\* an adapted policy under which a move of one state has probability 0.0 and the
\* moves of another state have unequal probabilities above 0
C12_Witness ==
    /\ pc = "nrpa" /\ nrpa.i >= 1
    /\ \E g, h \in SoftmaxGames :
          LET p == softmax_probs(nrpa.policy, g, valid_moves(g, g.current_player))
              q == softmax_probs(nrpa.policy, h, valid_moves(h, h.current_player))
          IN /\ \E i \in 1..Len(p) : p[i] = Zero
             /\ \E j, k \in 1..Len(q) : q[j] # Zero /\ q[k] # Zero /\ q[j] # q[k]

\* the update of one (move, state) pair as stated: the softmax p of the policy as it
\* is before the pair, + 1 for the chosen move, and - p(m) for every legal move m,
\* the chosen one included
stated_adapt_pair(policy, chosen, state) ==
    LET moves == [board |-> state.board, current_player |-> state.current_player,
                  last_pit |-> None]
        valid == valid_moves(moves, moves.current_player)
        probs == softmax_probs(policy, moves, valid)
        keys == {<<state, valid[i]>> : i \in 1..Len(valid)}
        index(m) == CHOOSE i \in 1..Len(valid) : valid[i] = m
    IN [key \in DOMAIN policy \cup keys |->
           IF key \in keys
           THEN policy_get(policy, key) + (IF key[2] = chosen THEN One ELSE Zero)
                - probs[index(key[2])]
           ELSE policy[key]]

RECURSIVE stated_adapt(_, _, _)
stated_adapt(policy, sequence, i) ==
    IF i > Len(sequence) THEN policy
    ELSE stated_adapt(stated_adapt_pair(policy, sequence[i].move, sequence[i].state),
                      sequence, i + 1)

\* C16: adapt handles each (move, state) pair of the sequence by taking the softmax
\* p of the policy as it is before the pair, adding 1 to the weight of the chosen
\* move and taking p(m) from the weight of every legal move m of the state, the
\* chosen one included; other keys keep their weights
C16_AdaptDecrementsEveryMove ==
    [][(pc = "nrpa" /\ nrpa.adapting)
          => nrpa'.policy = stated_adapt(nrpa.policy, nrpa.best_seq, 1)]_vars

\* C17: the policy a level of nrpa holds is not modified by the lower-level calls
\* it makes, each of which works on its own copy: across a lower-level call the
\* level's policy is what it was, and the only change between two such calls is the
\* level's own adapt toward its best sequence so far
C17_LowerCallsWorkOnCopies ==
    [][(pc = "nrpa" /\ pc' = "nrpa")
          => nrpa'.policy = IF nrpa.adapting THEN adapt(nrpa.policy, nrpa.best_seq)
                            ELSE nrpa.policy]_vars

\* at level 2 a second level-1 call, which adapts the policy it is given once per
\* iteration, has returned to a level whose own policy it has adapted once
C17_Witness ==
    /\ pc = "nrpa" /\ nrpa.level = 2 /\ nrpa.adapting /\ nrpa.i >= 1
    /\ nrpa.best_seq # <<>> /\ nrpa.policy # EmptyPolicy
    /\ \E r \in nrpa_level(1, nrpa.policy, nrpa.iterations, from_board_to_state(game)) :
          r.policy # nrpa.policy

\* the moves of a game whose successor has the given full-width value, by their
\* positions in valid_moves order
Attaining(g, depth, p, score) ==
    {i \in 1..Len(valid_moves(g, g.current_player)) :
        full_width(perform_move(g, valid_moves(g, g.current_player)[i], g.current_player),
                   depth - 1, p) = score}

\* C13: on a non-terminal state with depth >= 1 and the full window, the move
\* minimax returns is the first move in valid_moves order whose full-width value
\* without pruning equals the returned score, whatever windows the later siblings
\* were searched with
C13_FirstBestMove ==
    (mm.called /\ mm.depth >= 1 /\ ~is_terminal(mm.state)) =>
       LET best == Attaining(mm.state, mm.depth, mm.player, mm.score)
           moves == valid_moves(mm.state, mm.state.current_player)
       IN /\ best # {}
          /\ mm.move = moves[CHOOSE i \in best : \A j \in best : i <= j]

\* a call that pruned, on a state where several moves attain the returned score and
\* the first of them is not the first move of the list
C13_Witness ==
    /\ mm.called /\ mm.depth >= 2 /\ ~is_terminal(mm.state)
    /\ mm.evals < full_width_evals(mm.state, mm.depth)
    /\ Cardinality(Attaining(mm.state, mm.depth, mm.player, mm.score)) >= 2
    /\ 1 \notin Attaining(mm.state, mm.depth, mm.player, mm.score)

RECURSIVE best_over_moves(_, _, _, _)
\* the value of a state as stated: the maximum (player 0 to move) or minimum
\* (player 1) over the legal moves of the value of the move's successor, which is
\* evaluate_terminal of the successor at level 0 and the value of the successor one
\* level down otherwise; and the moves that attain it
best_over_moves(g, level, depth, discounting) ==
    IF is_terminal(g)
    THEN [moves |-> {None}, value |-> evaluate_terminal(g, discounting, depth)]
    ELSE LET player == g.current_player
             ms == valid_moves(g, player)
             val == [m \in {ms[i] : i \in 1..Len(ms)} |->
                        LET g_copy == perform_move(g, m, player)
                        IN IF level = 0
                           THEN evaluate_terminal(g_copy, discounting, depth + 1)
                           ELSE best_over_moves(g_copy, level - 1, depth + 1,
                                                discounting).value]
             best == IF player = 0
                     THEN CHOOSE v \in {val[m] : m \in DOMAIN val} :
                              \A m \in DOMAIN val : val[m] <= v
                     ELSE CHOOSE v \in {val[m] : m \in DOMAIN val} :
                              \A m \in DOMAIN val : v <= val[m]
         IN [moves |-> {m \in DOMAIN val : val[m] = best}, value |-> best]

\* C14: on a non-terminal state nested returns the maximum (player 0 to move) or
\* minimum (player 1) over the legal moves of the value of the move's successor,
\* and a move that attains it, whatever order the shuffle gave the moves and
\* whatever cut_on_win is
C14_BestOverMoves ==
    nm.called =>
       LET stated == best_over_moves(nm.state, nm.level, 1, nm.discounting)
       IN nm.value = stated.value /\ move \in stated.moves

\* a call with cut_on_win and no discounting that found a win for the mover, on a
\* state where several moves win, and returned one that is not the first in pit order
C14_Witness ==
    /\ nm.called /\ nm.level >= 1 /\ nm.cut_on_win /\ ~nm.discounting
    /\ nm.value = IF nm.state.current_player = 0 THEN DepthScale ELSE -DepthScale
    /\ LET stated == best_over_moves(nm.state, nm.level, 1, nm.discounting)
       IN /\ Cardinality(stated.moves) >= 2
          /\ \E m \in stated.moves : m < move

\* C15: in a nested call made with prune_on_depth and discounting both set and a
\* bound inherited from its caller, a move whose value is no better than the bound
\* for the mover (val <= bound for player 0, val >= bound for player 1) is skipped:
\* it is never taken as the call's best move and value
C15_MovesUnderBoundSkipped ==
    (nm.called /\ nm.prune_on_depth /\ nm.discounting) =>
       \A t \in nm.taken :
          /\ t.player = 0 => t.val > t.bound
          /\ t.player = 1 => t.val < t.bound

\* the prior as stated, for the move at position k of the legal moves of the parent
\* state: score(x) is the static evaluation, from the point of view of player who,
\* of the successor reached by playing x at the parent state, S is the sum of
\* score(x) over the legal moves of the parent state, and the prior is score / S
\* when S > 0 and 1 / (number of legal moves of the parent state) otherwise
stated_prior(parent_state, k, who) ==
    LET g == get_game_copy(parent_state)
        moves == valid_moves(g, g.current_player)
        score(i) == evaluate(perform_move(g, moves[i], g.current_player), who)
        Total[i \in 0..Len(moves)] == IF i = 0 THEN 0 ELSE Total[i - 1] + score(i)
        S == Total[Len(moves)]
    IN IF S > 0 THEN [num |-> score(k), den |-> S]
       ELSE [num |-> 1, den |-> Len(moves)]

\* C18: with PUCT the child expand creates for move m of a parent state has
\* prior = score(m) / S over the moves legal at the parent state when S > 0, and
\* 1 / (number of moves legal at the parent state) otherwise, the successors being
\* evaluated for one of the two players
C18_PriorOverParentMoves ==
    kmcts.use_puct =>
       \A n \in 2..Len(nodes) :
          LET parent_state == nodes[nodes[n].parent].game_state
              moves == get_valid_moves(parent_state)
              k == CHOOSE i \in 1..Len(moves) : moves[i] = nodes[n].move
          IN \E who \in Players :
                LET stated == stated_prior(parent_state, k, who)
                IN nodes[n].prior.num * stated.den = stated.num * nodes[n].prior.den

\* the children of node n have pairwise distinct moves, each a legal move of the
\* node's state that is no longer in its untried_moves
ChildrenOfUntriedMoves(n) ==
    LET children == nodes[n].children
        legal == get_valid_moves(nodes[n].game_state)
    IN /\ \A i, j \in 1..Len(children) :
             i # j => nodes[children[i]].move # nodes[children[j]].move
       /\ \A i \in 1..Len(children) :
             /\ \E k \in 1..Len(legal) : legal[k] = nodes[children[i]].move
             /\ \A k \in 1..Len(nodes[n].untried_moves) :
                   nodes[n].untried_moves[k] # nodes[children[i]].move

\* C20: a tree_policy call adds at most one node, and returns when it has added
\* it; and whenever a step of a best_move call has changed the tree (the tree of
\* a new call is a root without children) every node of the tree has children
\* with pairwise distinct moves, each a legal move of the node's state that has
\* left the node's untried_moves
C20_OneChildPerUntriedMove ==
    [][/\ nodes' # nodes => \A n \in 1..Len(nodes') : ChildrenOfUntriedMoves(n)'
       /\ pc = "tree_policy" =>
             \/ nodes' = nodes
             \/ Len(nodes') = Len(nodes) + 1 /\ pc' = "rollout"]_vars

\* a tree_policy call has just expanded the last untried move of a node that has
\* several legal moves, one child each
C20_Witness ==
    /\ pc = "rollout"
    /\ nodes[node].parent # 0
    /\ Len(nodes[nodes[node].parent].children) >= 2
    /\ nodes[nodes[node].parent].untried_moves = <<>>

\* the node whose AMAF table a scoring at node n reads as stated: the nearest node
\* on the path from n up to the root, n included, with more visits than the
\* threshold configured on the KalahMCTS object, and n when there is none
NearestVisited(ns, n, threshold) ==
    LET visited == {q \in PathToRoot(ns, n) : ns[q].visits > threshold}
    IN IF visited = {} THEN n
       ELSE CHOOSE q \in visited : \A r \in visited : r \in PathToRoot(ns, q)

\* C19: under GRAVE every scoring of children, inside tree_policy and at the final
\* choice at the root, reads the AMAF table of the nearest node from the scoring
\* node up to the root whose visits exceed the threshold configured on the
\* KalahMCTS object, and of the scoring node when no node qualifies
C19_ConfiguredThreshold ==
    [][(kmcts.use_grave /\ amaf' # amaf /\ amaf'.node # 0)
          => amaf'.table = NearestVisited(nodes, amaf'.node, kmcts.threshold)]_vars

\* the pit where the last stone of a move of player lands, and the board the
\* sowing leaves before any capture
LastStone(g, m, player) == Sow([g.board EXCEPT ![m] = 0], m, g.board[m], player)

\* the pits of player that hold stones: the valid moves without the None sentinel
MovesOf(g, player) == {m \in player * 7 .. player * 7 + 5 : g.board[m] > 0}

\* the valid moves of player whose last stone lands in player's own store
ExtraTurnMoves(g, player) ==
    {m \in MovesOf(g, player) :
        LastStone(g, m, player).index = (IF player = 0 THEN 6 ELSE 13)}

\* C23: count_extra_moves(game, player) is the number of valid moves of player
\* whose last stone lands in that player's own store, for either player and
\* whichever side is to move in game (checked on the states a depth-0 minimax
\* call has evaluated)
C23_CountsExtraTurnMoves ==
    (pc = "returned" /\ mm.depth = 0) =>
       \A player \in Players :
          count_extra_moves(mm.state, player) = Cardinality(ExtraTurnMoves(mm.state, player))

\* the valid moves of player that capture: the last stone lands in an empty pit of
\* the player's side, not the store, and the opposite pit holds seeds
CapturingMoves(g, player) ==
    {m \in MovesOf(g, player) :
        LET sown == LastStone(g, m, player)
        IN /\ sown.index \in player * 7 .. player * 7 + 5
           /\ sown.board[sown.index] = 1
           /\ sown.board[12 - sown.index] > 0}

\* C24: count_potential_captures(game, player) is the number of valid moves of
\* player that result in a capture, the last stone landing in an empty pit of the
\* player's side while the opposite pit has seeds; a move that ends in the
\* player's store is never counted (checked on the states a depth-0 minimax call
\* has evaluated)
C24_CountsCapturingMoves ==
    (pc = "returned" /\ mm.depth = 0) =>
       \A player \in Players :
          count_potential_captures(mm.state, player) = Cardinality(CapturingMoves(mm.state, player))

\* C21: in run_shot and run_shuss the playouts made over all the halving rounds
\* never exceed the budget, for every number k >= 2 of initial candidates and
\* every budget >= 0
C21_PlayoutsWithinBudget ==
    ((kmcts.use_shot \/ kmcts.use_shuss) /\ shot.total_k >= 2) =>
       playouts <= kmcts.iterations

\* a halving call over at least four candidates has returned after two rounds of
\* playouts that used the budget up, the second round with more playouts per
\* candidate than the first
C21_Witness ==
    /\ kmcts.use_shot \/ kmcts.use_shuss
    /\ pc = "done"
    /\ shot.total_k >= 4
    /\ shot.rounds = 2
    /\ shot.simulations_per_node >= 2
    /\ playouts = kmcts.iterations

\* C22: from every non-terminal state every sequence of legal moves reaches a
\* terminal state after finitely many moves, and valid_moves never offers the
\* None sentinel to the side to move before that: a playout that is running
\* returns
C22_PlayoutTerminates ==
    /\ [](pc = "playing" /\ ~is_terminal(sim.game) =>
            \A i \in 1..Len(valid_moves(sim.game, sim.game.current_player)) :
               valid_moves(sim.game, sim.game.current_player)[i] # None)
    /\ (pc = "playing") ~> (pc = "returned" /\ is_terminal(sim.game))

\* a playout from a non-terminal game has returned after moves of both sides
\* that brought stones to both stores, the last move ending in a pit of the side
\* that did not make it
C22_Witness ==
    /\ pc = "returned"
    /\ ~is_terminal(game)
    /\ sim.game.board[6] > game.board[6]
    /\ sim.game.board[13] > game.board[13]
    /\ move # None
    /\ (move < 7) # (sim.game.last_pit < 7)

====
